---- MODULE Spec2Model ----
(***************************************************************************)
(* Model of the transcript-to-document pipeline of EasyScripts:            *)
(* AiTranscriptProcessor.process_file / reformat_transcript with the       *)
(* processed-files ledger (.processed_files.json), the output tree         *)
(* (processed/<channel>/<title>.json) and the retry loop around the AI     *)
(* call; of the provider store (.api-keys.json) with set_provider and the  *)
(* shell's set_default_provider; and of the shell's batch run              *)
(* (_process_files on its thread, begin_processing, cancel_processing).    *)
(*                                                                         *)
(* Spec is the pipeline alone, GateSpec the length gate on its own,        *)
(* ProviderSpec the processor with its provider store, BatchSpec the       *)
(* batch run of the shell (with the prompt editing of ytt.py), ShellSpec   *)
(* the shell's window while threads run, ParseSpec one transformation      *)
(* whose reply has text around the object, SanitizeSpec the filename       *)
(* sanitizer on its own, DownloaderSpec fetch_single_video of the          *)
(* downloader.                                                             *)
(*                                                                         *)
(* Text is a sequence of one-character strings.  A few characters that     *)
(* cannot be typed in ASCII are named: "TAB", "U+00E9" (a non-ASCII        *)
(* letter), "U+D800" (a lone surrogate), "U+1F600" (outside the BMP).      *)
(* The text of a summary or of a content section is only ever measured     *)
(* (len), so it is carried as its length.                                  *)
(***************************************************************************)
EXTENDS Integers, Sequences, FiniteSets, TLC

\* ------------------------------------------------------------ bounds
\* process_file calls per behaviour (also the range of the clock)
MaxCalls == 3
\* the length gate is applied to documents whose section lengths lie within
\* GateSpread of the minimum lengths
GateSpread == 2
\* batches begun per behaviour
MaxBatches == 2

\* ------------------------------------------------- program constants
MAX_RETRIES == 3
\* seconds of asyncio.sleep between two attempts
RETRY_DELAY == 1
min_title_length == 20
min_summary_length == 100
min_content_length == 500

\* ------------------------------------------------------------- text
Pad(c, n) == [i \in 1..n |-> c]

NonBMP == {"U+1F600"}
Whitespace == {" ", "TAB"}
\* \w of a str pattern: letters and digits of any script, and the underscore
WordChars == {"a", "b", "c", "T", "U", "1", "_", "U+00E9"}

\* re.sub(r"[^\u0000-\u007F\u0080-\uFFFF]", "", s)
RemoveNonBMP(s) == SelectSeq(s, LAMBDA c : c \notin NonBMP)

\* faulty variant: the underscore is left in place
UnderscoreKept(s) == s

\* re.sub(r"( *)_( *)", r"\1 \2", s): the spaces around an underscore are
\* put back as they were, the underscore itself becomes one space
UnderscoreToSpace(s) == [i \in 1..Len(s) |-> IF s[i] = "_" THEN " " ELSE s[i]]

\* the first index >= i of s that holds no space (Len(s)+1 when there is none)
RECURSIVE SkipSpaces(_, _)
SkipSpaces(s, i) ==
  IF i > Len(s) \/ s[i] # " " THEN i ELSE SkipSpaces(s, i + 1)

\* re.sub(r"( *)[:]( *)", " - ", s), scanning from index i: the leftmost
\* match takes the spaces before the colon, the colon and the spaces after
RECURSIVE ColonScan(_, _)
ColonScan(s, i) ==
  IF i > Len(s) THEN <<>>
  ELSE LET j == SkipSpaces(s, i) IN
       IF j <= Len(s) /\ s[j] = ":"
         THEN <<" ", "-", " ">> \o ColonScan(s, SkipSpaces(s, j + 1))
         ELSE <<s[i]>> \o ColonScan(s, i + 1)

ColonToHyphen(s) == ColonScan(s, 1)

\* re.sub(r" +", " ", s)
CollapseSpaces(s) ==
  LET keep == {i \in 1..Len(s) : ~(s[i] = " " /\ i > 1 /\ s[i - 1] = " ")}
      RECURSIVE pick(_)
      pick(i) == IF i > Len(s) THEN <<>>
                 ELSE (IF i \in keep THEN <<s[i]>> ELSE <<>>) \o pick(i + 1)
  IN pick(1)

\* re.sub(r"[^\w\- ]", "", s)
RemoveInvalid(s) == SelectSeq(s, LAMBDA c : c \in WordChars \cup {"-", " "})

\* str.strip()
RECURSIVE Strip(_)
Strip(s) ==
  IF s = <<>> THEN s
  ELSE IF s[1] \in Whitespace THEN Strip(Tail(s))
  ELSE IF s[Len(s)] \in Whitespace THEN Strip(SubSeq(s, 1, Len(s) - 1))
  ELSE s

\* A JSON scalar as Python sees it: its type and str() of it.
Str(text) == [type |-> "str", repr |-> text]
Num(text) == [type |-> "int", repr |-> text]

\* AiTranscriptProcessor._sanitize_filename
sanitize_filename(title) ==
  IF title.type # "str" THEN title.repr
  ELSE Strip(RemoveInvalid(CollapseSpaces(ColonToHyphen(
         UnderscoreToSpace(RemoveNonBMP(title.repr))))))

\* os.path.join of two components
path_join(a, b) ==
  IF b # <<>> /\ b[1] = "/" THEN b
  ELSE IF a = <<>> \/ a[Len(a)] = "/" THEN a \o b
  ELSE a \o <<"/">> \o b

\* faulty variant: the path is used as it is, directories included
BasenameWholePath(p) == p

\* os.path.basename
RECURSIVE basename(_)
basename(p) ==
  IF p = <<>> THEN p
  ELSE IF p[Len(p)] = "/" THEN <<>>
  ELSE basename(SubSeq(p, 1, Len(p) - 1)) \o <<p[Len(p)]>>

\* --------------------------------------------------- the input files
\* Paths are sequences of path chunks and "/" separators.
InputA == <<"d1", "/", "x.json">>
InputB == <<"d2", "/", "x.json">>
InputC == <<"d1", "/", "y.json">>
InputBad == <<"d1", "/", "bad.json">>
Inputs == {InputA, InputB, InputC, InputBad}
\* another input of the channel of InputA, under a name of its own
InputD == <<"d2", "/", "z.json">>
\* an input whose channel name has no character the sanitizer keeps
InputE == <<"d1", "/", "w.json">>

\* json.load of an input file: <<>> when the file does not decode, else
\* <<record>> with the channel_name of its metadata
load_input(f) ==
  CASE f = InputA -> <<[channel_name |-> Str(<<"T", "_", "c">>)]>>
    [] f = InputB -> <<[channel_name |-> Str(<<"T", " ", "c">>)]>>
    [] f = InputC -> <<[channel_name |-> Str(<<"U", ":", "1">>)]>>
    [] f = InputD -> <<[channel_name |-> Str(<<"T", " ", "c">>)]>>
    [] f = InputE -> <<[channel_name |-> Str(<<"!", "?", "!">>)]>>
    [] OTHER -> <<>>

\* ------------------------------------------------------ the AI reply
\* The reply text is a sequence of tokens: "{" and "}", "prose" (text with
\* no brace in it) and the members of a JSON object ("key:value").
TitleA == Pad("a", 21)
TitleB == Pad("a", 18) \o <<":", "b", "c">>
Title20 == Pad("a", 20)
TitleS == Pad("a", 20) \o <<"U+D800">>
\* a title long enough for the gate, with no character the sanitizer keeps
TitleP == Pad("?", 21)

Members == {"title:A", "title:B", "title:20", "title:S", "title:P", "summary:101",
            "summary:100", "content:501", "content:500", "extra:1"}

MemberKey(tok) ==
  CASE tok \in {"title:A", "title:B", "title:20", "title:S", "title:P"} -> "title"
    [] tok \in {"summary:101", "summary:100"} -> "summary"
    [] tok \in {"content:501", "content:500"} -> "content"
    [] OTHER -> "extra"

MemberVal(tok) ==
  CASE tok = "title:A" -> Str(TitleA)
    [] tok = "title:B" -> Str(TitleB)
    [] tok = "title:20" -> Str(Title20)
    [] tok = "title:S" -> Str(TitleS)
    [] tok = "title:P" -> Str(TitleP)
    [] tok = "summary:101" -> 101
    [] tok = "summary:100" -> 100
    [] tok = "content:501" -> 501
    [] tok = "content:500" -> 500
    [] OTHER -> 1

\* re.sub(r"^[^{]*", "", reply) then re.sub(r"[^}]*$", "", reply)
RECURSIVE StripLeading(_)
StripLeading(t) ==
  IF t = <<>> \/ t[1] = "{" THEN t ELSE StripLeading(Tail(t))

RECURSIVE StripTrailing(_)
StripTrailing(t) ==
  IF t = <<>> \/ t[Len(t)] = "}" THEN t
  ELSE StripTrailing(SubSeq(t, 1, Len(t) - 1))

\* faulty variant: only the text before the first "{" is discarded
StripLeadingOnly(t) == StripLeading(t)

StripToBraces(t) == StripTrailing(StripLeading(t))

\* json.loads: <<>> for a decode error, else <<dict>>; a repeated key keeps
\* its last value
json_loads(t) ==
  IF Len(t) >= 2 /\ t[1] = "{" /\ t[Len(t)] = "}"
     /\ \A i \in 2..(Len(t) - 1) : t[i] \in Members
  THEN LET idx == 2..(Len(t) - 1)
           last(k) == CHOOSE i \in idx : /\ MemberKey(t[i]) = k
                                         /\ \A j \in idx : MemberKey(t[j]) = k => j <= i
       IN <<[k \in {MemberKey(t[i]) : i \in idx} |-> MemberVal(t[last(k)])]>>
  ELSE <<>>

\* The response object of the completion call.
Response(kind, text) == [kind |-> kind, text |-> text]
Reply(members) == Response("text", <<"prose", "{">> \o members \o <<"}", "prose">>)

RespNone == Response("none", <<>>)
RespInBandError == Response("error", <<>>)
RespEmptyBody == Response("empty", <<>>)
RespGoodA == Reply(<<"title:A", "summary:101", "content:501">>)
RespGoodB == Reply(<<"title:B", "summary:101", "content:501", "extra:1">>)
RespShort == Reply(<<"title:A", "summary:101", "content:500">>)
RespMissing == Reply(<<"title:A", "summary:101">>)
RespUndecodable == Response("text", <<"prose", "{", "prose">>)
RespPunctuation == Reply(<<"title:P", "summary:101", "content:501">>)
RespSurrogate == Reply(<<"title:S", "summary:101", "content:501">>)

Responses == {RespNone, RespInBandError, RespEmptyBody, RespGoodA, RespGoodB,
              RespShort, RespMissing, RespUndecodable, RespSurrogate}

\* ------------------------------------------------------------ state
VARIABLES
  api_keys,         \* "ai-providers" of the provider store file: key -> config
  provider_name,    \* argument of the last set_provider / set_default_provider
  provider,         \* self._provider: <<>> (None) or <<the selected config>>
  client,           \* self._client: <<>> (None) or <<the key and URL it was built from>>
  ledger,           \* .processed_files.json: base filename -> entry
  outputs,          \* the output tree: path -> [complete, json]
  pc,               \* "idle", or "request" (inside the retry loop, before a call)
  file,             \* argument of the current (or last) process_file call
  processed_files,  \* the local copy of the ledger read by that call
  input_json,       \* what the call loaded: <<>> or <<input>>
  attempt,          \* loop variable of the retry loop
  requests,         \* completion calls issued by that call
  slept,            \* seconds that call spent in asyncio.sleep
  outcomes,         \* how each of these calls ended: "timeout", "error", "response"
  response,         \* <<>> or <<the response the loop ended with>>
  result,           \* what the call returned: <<>> (None) or <<result dict>>
  raised,           \* the exception the call ended with, "" when it returned
  log,              \* what the call printed
  now,              \* the clock (datetime.now())
  op,               \* the operation that produced this state
  pre,              \* ledger, output tree and succeeded when the call started
  succeeded,        \* inputs whose call returned a result, since the last external change
  transformed,      \* base filenames of the inputs whose transformation ever succeeded
  selected_paths,   \* the shell's selection: the files of the batch, in order
  provider_var,     \* the provider chosen in the shell ("" when none is)
  processing_cancelled,  \* the cancellation flag
  worker,           \* where the thread running _process_files is
  next_file,        \* index in selected_paths of the next file of its loop
  file_count,       \* files the loop has taken up
  file_success_count,    \* files whose process_file call returned a result
  processing_queue, \* what the thread has put on the queue
  ui,               \* what the begin button does: "ready", "processing", "cancelling"
  cancel_point,     \* <<>>, or <<where the thread was when cancel was pressed>>
  threads,          \* threads running _process_files that are alive
  started,          \* batches begun so far
  process_btn,      \* state of the two selection buttons: "normal" or "disabled"
  begin_btn,        \* state of the begin / cancel button
  system_prompt,    \* processor.system_prompt as the shell reads and assigns it
  user_prompt,      \* processor.user_prompt
  raw_name,         \* the value _sanitize_filename was last given
  sanitized,        \* <<>>, or <<what it returned>>
  fetches,          \* the fetch_single_video calls so far, one record each
  gui,              \* the shell program that runs: the name of its file
  polling,          \* tk: a call of update_progress is scheduled
  delivered,        \* what the main thread has taken from the queue, in order
  processing_thread,\* Qt: "none", or the state of the thread the field refers to
  local_result,     \* ytt.py: the variable result of _process_files, <<>> for None
  callbacks,        \* ytt.py: the preview updates scheduled with after, each with the file it was scheduled for
  previewed,        \* ytt.py: the preview updates that ran: the file meant and what was shown
  menu,             \* downloader: "open" while main_menu loops, "closed" after it
  entered,          \* downloader: the choices entered at the menu, in order
  called            \* downloader: what main_menu did for each of them

vars == <<api_keys, provider_name, provider, client, ledger, outputs, pc, file, processed_files,
          input_json, attempt, requests, slept, outcomes, response, result,
          raised, log, now, op, pre, succeeded, transformed,
          selected_paths, provider_var, processing_cancelled, worker,
          next_file, file_count, file_success_count, processing_queue, ui,
          cancel_point, threads, started, process_btn,
          system_prompt, user_prompt, begin_btn, raw_name, sanitized, fetches,
          gui, polling, delivered, processing_thread, local_result, callbacks, previewed, menu, entered, called>>

\* the state of the processor, its store and its files
processor == <<api_keys, provider_name, provider, client, ledger, outputs, pc,
               file, processed_files, input_json, attempt, requests, slept,
               outcomes, response, result, raised, log, now, op, pre,
               succeeded, transformed>>

\* the state of the shell and of its worker thread
shell == <<selected_paths, provider_var, processing_cancelled, worker,
           next_file, file_count, file_success_count, processing_queue, ui,
           cancel_point, threads, started, process_btn,
           system_prompt, user_prompt, begin_btn>>

None == <<>>
Some(x) == <<x>>

\* print(text, type=level)
Msg(text, level) == [msg |-> text, type |-> level, n |-> 0]
MsgSending(k) == [msg |-> "Sending request to AI", type |-> "", n |-> k]

\* ------------------------------------------------ the provider store
\* A provider config as the store file holds it ("" is an empty string).
CfgGood == [name |-> "P1", api_key |-> "k1", base_url |-> "u1", model |-> "m1"]
CfgEdited == [name |-> "P1", api_key |-> "k9", base_url |-> "u1", model |-> "m1"]
CfgNoKey == [name |-> "P2", api_key |-> "", base_url |-> "u2", model |-> "m2"]
CfgNoUrl == [name |-> "P3", api_key |-> "k3", base_url |-> "", model |-> ""]

\* the ids a caller may ask for; "missing" is in no store
ProviderIds == {"p1", "p2", "p3"}
ProviderNames == ProviderIds \cup {"default", "missing"}

StoreEntries == "p1" :> CfgGood @@ "p2" :> CfgNoKey @@ "p3" :> CfgNoUrl
\* the store files the program may start with: without a default, or with
\* the default a copy of one of the entries
Stores ==
  {StoreEntries} \cup {StoreEntries @@ "default" :> StoreEntries[k] : k \in {"p1", "p2"}}

\* _set_client: a client is built only from a non-empty key and URL; the
\* attribute is left as it is otherwise
SetClient(cli, api_key, base_url) ==
  IF api_key # "" /\ base_url # ""
  THEN Some([api_key |-> api_key, base_url |-> base_url])
  ELSE cli

\* set_provider(name) on this store: the provider and client it leaves and
\* what it prints
SelectProvider(store, name, prov, cli) ==
  IF name \notin DOMAIN store
  THEN [provider |-> prov, client |-> cli,
        msgs |-> <<Msg("Provider not found", "error")>>]
  ELSE [provider |-> Some(store[name]),
        client |-> SetClient(cli, store[name].api_key, store[name].base_url),
        msgs |-> <<>>]

\* AiTranscriptProcessor.set_provider(name), called between two process_file
\* calls.  It returns None for an id the store does not hold and never raises.
set_provider(name) ==
  /\ pc = "idle"
  /\ op' = "set_provider"
  /\ provider_name' = name
  /\ LET out == SelectProvider(api_keys, name, provider, client) IN
       /\ provider' = out.provider
       /\ client' = out.client
       /\ log' = out.msgs
  /\ raised' = ""
  /\ UNCHANGED <<api_keys, ledger, outputs, pc, file, processed_files,
                 input_json, attempt, requests, slept, outcomes, response,
                 result, now, pre, succeeded, transformed>>

\* faulty variant: a default the store already holds is kept
WithDefaultKeepOld(store, key) ==
  IF "default" \in DOMAIN store THEN store ELSE store @@ "default" :> store[key]

\* api_keys["ai-providers"]["default"] = api_keys["ai-providers"][key], as the
\* file holds it after json.dump: the default is a second object, equal to
\* the entry of key
WithDefault(store, key) ==
  [k \in DOMAIN store \cup {"default"} |->
     IF k = "default" THEN store[key] ELSE store[k]]

\* TranscriptProcessorGUI.set_default_provider with the provider of this key
\* selected (the shell offers the keys it loaded, "default" left out).  The
\* store is read by set_provider only, so taking this step between two calls
\* loses no interleaving.
set_default_provider(key) ==
  /\ pc = "idle"
  /\ key \in DOMAIN api_keys \ {"default"}
  /\ op' = "set_default_provider"
  /\ provider_name' = key
  /\ api_keys' = WithDefault(api_keys, key)
  /\ log' = <<Msg("Set as default provider", "success")>>
  /\ UNCHANGED <<provider, client, ledger, outputs, pc, file, processed_files,
                 input_json, attempt, requests, slept, outcomes, response,
                 result, raised, now, pre, succeeded, transformed>>

\* ------------------------------------------------- process_file: entry
\* faulty variant: the os.path.exists test is inverted
AlreadyProcessedInverted(pf, filename, outs) ==
  /\ filename \in DOMAIN pf
  /\ pf[filename].output_path \notin DOMAIN outs

\* faulty variant: the os.path.exists test is left out
AlreadyProcessedNoExists(pf, filename, outs) == filename \in DOMAIN pf

\* "filename in processed_files" and os.path.exists(output_path)
AlreadyProcessed(pf, filename, outs) ==
  /\ filename \in DOMAIN pf
  /\ pf[filename].output_path \in DOMAIN outs

\* faulty variant: the tracking file is rewritten with the new entry alone
RecordOnlyNew(led, pf, filename, res, date) ==
  IF res # None
  THEN [k \in {filename} |->
          [output_path |-> res[1].filepath, processed_date |-> date]]
  ELSE led

\* faulty variant: the tracking file is never rewritten
RecordNothing(led, pf, filename, res, date) == led

\* faulty variant: the entry is written whatever reformat_transcript returned
RecordAlways(led, pf, filename, res, date) ==
  [k \in DOMAIN pf \cup {filename} |->
     IF k = filename
     THEN [output_path |-> IF res # None THEN res[1].filepath ELSE <<>>,
           processed_date |-> date]
     ELSE pf[k]]

\* the update of the tracking file after reformat_transcript returned res
RecordResult(led, pf, filename, res, date) ==
  IF res # None
  THEN [k \in DOMAIN pf \cup {filename} |->
          IF k = filename
          THEN [output_path |-> res[1].filepath, processed_date |-> date]
          ELSE pf[k]]
  ELSE led

\* the return of reformat_transcript into process_file and out of it
Return(res, outs, msgs) ==
  /\ result' = res
  /\ raised' = ""
  /\ outputs' = outs
  /\ log' = log \o msgs
  /\ ledger' = RecordResult(ledger, processed_files, basename(file), res, now)
  /\ succeeded' = IF res # None THEN succeeded \cup {file} ELSE succeeded
  /\ transformed' = IF res # None THEN transformed \cup {basename(file)}
                    ELSE transformed
  /\ pc' = "idle"

\* process_file(f) up to the first completion call
process_file(f) ==
  /\ pc = "idle"
  /\ now < MaxCalls
  /\ now' = now + 1
  /\ op' = "process_file"
  /\ file' = f
  /\ pre' = [ledger |-> ledger, outputs |-> outputs, succeeded |-> succeeded]
  /\ processed_files' = ledger
  /\ attempt' = 0
  /\ requests' = 0
  /\ slept' = 0
  /\ outcomes' = <<>>
  /\ response' = None
  /\ result' = None
  /\ UNCHANGED <<api_keys, provider_name, provider, client, ledger, outputs, succeeded, transformed>>
  /\ LET filename == basename(f)
         start == <<Msg("Processing file", "info")>>
         stale == IF filename \in DOMAIN ledger
                  THEN <<Msg("Output file is missing. Reprocessing", "warning")>>
                  ELSE <<>>
     IN IF AlreadyProcessed(ledger, filename, outputs)
        THEN /\ log' = start \o <<Msg("File already processed. Skipping", "warning")>>
             /\ input_json' = None
             /\ raised' = ""
             /\ pc' = "idle"
        ELSE IF load_input(f) = None
        THEN /\ log' = start \o stale
             /\ input_json' = None
             /\ raised' = "JSONDecodeError"
             /\ pc' = "idle"
        ELSE /\ log' = start \o stale
             /\ input_json' = load_input(f)
             /\ raised' = ""
             /\ pc' = "request"

\* ------------------------------------------- reformat_transcript: reply
RequiredKeys == {"title", "summary", "content"}

\* faulty variant: the content section is compared with >= instead of >
PassesGateLoose(doc) ==
  /\ Len(doc.title.repr) > min_title_length
  /\ doc.summary > min_summary_length
  /\ doc.content >= min_content_length

\* faulty variant: the title is compared with >= instead of >
PassesGateTitleLoose(doc) ==
  /\ Len(doc.title.repr) >= min_title_length
  /\ doc.summary > min_summary_length
  /\ doc.content > min_content_length

\* the minimum-length check on the three sections
PassesGate(doc) ==
  /\ Len(doc.title.repr) > min_title_length
  /\ doc.summary > min_summary_length
  /\ doc.content > min_content_length

\* whether json.dump(..., ensure_ascii=False) into a utf-8 file can encode doc
Encodable(doc) == \A i \in 1..Len(doc.title.repr) : doc.title.repr[i] # "U+D800"

\* faulty variant: the title goes into the file name as the reply gave it
OutputPathRawTitle(channel_name, title) ==
  path_join(path_join(<<"processed">>, sanitize_filename(channel_name)),
            title.repr \o <<".json">>)

\* os.path.join("processed", channel_name) joined with "<title>.json"
OutputPath(channel_name, title) ==
  path_join(path_join(<<"processed">>, sanitize_filename(channel_name)),
            sanitize_filename(title) \o <<".json">>)

PartialFile == [complete |-> FALSE, json |-> [k \in {} |-> 0]]
WholeFile(doc) == [complete |-> TRUE, json |-> doc]

\* faulty variant: nothing reaches the disk
WriteFileNothing(outs, path, content) == outs

\* open(filepath, "w") and the write into it
WriteFile(outs, path, content) ==
  [q \in DOMAIN outs \cup {path} |-> IF q = path THEN content ELSE outs[q]]

\* what is printed for the ValueError raised when a required key is absent:
\* "Error parsing AI response: " and the literal the error is built with
MissingFieldsText ==
  "Error parsing AI response: Missing required fields in AI response"

\* the required keys a printed text spells out
KeysNamed(text) ==
  CASE text = MissingFieldsText -> {}
    [] text = "Error parsing AI response" -> {}
    [] text = "File processing failed" -> {}
    [] OTHER -> {}

\* The part of reformat_transcript after the retry loop, for response r:
\* what it returns, the output tree it leaves and what it prints.
AfterResponse(r, input, outs) ==
  LET received == <<Msg("Response received from AI", "")>>
      fail(m) == [res |-> None, outs |-> outs, msgs |-> received \o m]
      failed == <<Msg("Error processing file", "error")>>
      missing == <<Msg(MissingFieldsText, "error"),
                   Msg("File processing failed", "error")>>
      unparsed == <<Msg("Error parsing AI response", "error"),
                    Msg("File processing failed", "error")>>
      valid == <<Msg("Response is valid! Saving to file", "info")>>
  IN
  IF r.kind = "none" THEN fail(<<Msg("Error: Empty response from AI", "error")>>)
  ELSE IF r.kind = "error" THEN fail(<<Msg("Error: reported by the provider", "error")>>)
  ELSE IF r.kind = "empty" THEN fail(failed)
  ELSE LET js == json_loads(StripToBraces(r.text)) IN
    IF Len(js) = 0 THEN fail(unparsed)
    ELSE IF ~(RequiredKeys \subseteq DOMAIN js[1]) THEN fail(missing)
    ELSE IF js[1].title.type # "str" THEN fail(failed)
    ELSE IF ~PassesGate(js[1])
      THEN fail(<<Msg("Skipping file: Reformatted content is too short", "warning")>>)
    ELSE LET doc == js[1]
             filename == sanitize_filename(doc.title) \o <<".json">>
             filepath == OutputPath(input.channel_name, doc.title)
         IN IF Encodable(doc)
            THEN [res |-> Some([title |-> doc.title, summary |-> doc.summary,
                                content |-> doc.content, filename |-> filename,
                                filepath |-> filepath]),
                  outs |-> WriteFile(outs, filepath, WholeFile(doc)),
                  msgs |-> received \o valid
                           \o <<Msg("File processed. Saved as", "success")>>]
            ELSE [res |-> None,
                  outs |-> WriteFile(outs, filepath, PartialFile),
                  msgs |-> received \o valid \o failed]

\* -------------------------------------- reformat_transcript: retry loop
Configured == provider # None /\ client # None

\* faulty variant: the last attempt is taken to be the one before it
RetriesOffByOne(kind, att) == kind = "timeout" /\ att < MAX_RETRIES - 2

\* faulty variant: every failure of the call is handled like a timeout
RetriesAnyFailure(kind, att) == att # MAX_RETRIES - 1

\* whether the except clause for a failure of this kind goes round the loop
\* again (asyncio.TimeoutError on a non-final attempt) or returns
Retries(kind, att) == kind = "timeout" /\ att # MAX_RETRIES - 1

\* faulty variant: a timeout that is retried is not announced as a retry
FailureMsgNoRetryNotice(kind, att) ==
  IF kind = "timeout"
  THEN Msg("Request timed out after all retries", "error")
  ELSE Msg("Request to AI failed", "error")

FailureMsg(kind, att) ==
  IF kind = "timeout"
  THEN IF Retries(kind, att)
       THEN Msg("Request timed out, retrying", "warning")
       ELSE Msg("Request timed out after all retries", "error")
  ELSE Msg("Request to AI failed", "error")

\* one pass of the loop whose call raises (kind "timeout" or "error")
AiFailure(kind) ==
  /\ pc = "request"
  /\ Configured
  /\ attempt < MAX_RETRIES
  /\ op' = "ai_call"
  /\ requests' = requests + 1
  /\ outcomes' = Append(outcomes, kind)
  /\ UNCHANGED <<api_keys, provider_name, provider, client, file, processed_files, input_json, response,
                 now, pre>>
  /\ LET msgs == <<MsgSending(attempt + 1), FailureMsg(kind, attempt)>> IN
     IF Retries(kind, attempt) /\ attempt + 1 < MAX_RETRIES
     THEN /\ attempt' = attempt + 1
          /\ slept' = slept + RETRY_DELAY
          /\ log' = log \o msgs
          /\ UNCHANGED <<ledger, outputs, pc, result, raised, succeeded, transformed>>
     ELSE /\ attempt' = attempt
          /\ slept' = slept
          /\ Return(None, outputs, msgs)

AiTimeout == AiFailure("timeout")
AiException == AiFailure("error")

\* self.provider or self._client is None: the attribute access raises
\* inside the try, before any call is made
AiNotConfigured ==
  /\ pc = "request"
  /\ ~Configured
  /\ op' = "ai_call"
  /\ UNCHANGED <<api_keys, provider_name, provider, client, file, processed_files, input_json, attempt,
                 requests, slept, outcomes, response, now, pre>>
  /\ Return(None, outputs,
            (IF provider = None THEN <<>> ELSE <<MsgSending(attempt + 1)>>)
              \o <<FailureMsg("error", attempt)>>)

\* one pass of the loop whose call returns r: break, then the rest of
\* reformat_transcript and of process_file
AiResponse(r) ==
  /\ pc = "request"
  /\ Configured
  /\ op' = "ai_call"
  /\ requests' = requests + 1
  /\ outcomes' = Append(outcomes, "response")
  /\ response' = Some(r)
  /\ UNCHANGED <<api_keys, provider_name, provider, client, file, processed_files, input_json, attempt,
                 slept, now, pre>>
  /\ LET out == AfterResponse(r, input_json[1], outputs) IN
     Return(out.res, out.outs, <<MsgSending(attempt + 1)>> \o out.msgs)

\* ------------------------------------------------------ environment
\* An output file is removed from outside the program, between two calls.
DeleteOutput(path) ==
  /\ pc = "idle"
  /\ path \in DOMAIN outputs
  /\ outputs' = [q \in DOMAIN outputs \ {path} |-> outputs[q]]
  /\ op' = "delete_output"
  /\ succeeded' = {}
  /\ UNCHANGED <<api_keys, provider_name, provider, client, ledger, pc, file, processed_files,
                 input_json, attempt, requests, slept, outcomes, response,
                 result, raised, log, now, pre, transformed>>

\* The entry of a provider in the store file is edited from outside the
\* program (a key is rotated).
EditProvider(key, cfg) ==
  /\ pc = "idle"
  /\ key \in DOMAIN api_keys \ {"default"}
  /\ api_keys[key] # cfg
  /\ api_keys' = [api_keys EXCEPT ![key] = cfg]
  /\ op' = "edit_provider"
  /\ provider_name' = key
  /\ UNCHANGED <<provider, client, ledger, outputs, pc, file, processed_files,
                 input_json, attempt, requests, slept, outcomes, response,
                 result, raised, log, now, pre, succeeded, transformed>>

\* ------------------------------------------------------ specification
\* AiTranscriptProcessor.__init__: set_provider("default") selects the default
\* provider, builds a client only from a non-empty key and URL, and fails
\* silently when the store has no default.
\* the shell before anything is selected
\* what the pipeline and the shell leave alone: the sanitizer on its own and
\* the downloader
tools == <<raw_name, sanitized, fetches>>
ToolsInit == raw_name = Str(<<>>) /\ sanitized = <<>> /\ fetches = <<>>

\* what the window and its event loop add to the state of the shell
pane == <<local_result, callbacks, previewed>>
console == <<menu, entered, called>>
front == <<gui, polling, delivered, processing_thread, pane, console>>
PaneInit == local_result = <<>> /\ callbacks = <<>> /\ previewed = <<>>
ConsoleInit == menu = "open" /\ entered = <<>> /\ called = <<>>
FrontInit ==
  /\ gui = "AiTranscriptProcessor.py"
  /\ polling = FALSE
  /\ delivered = <<>>
  /\ processing_thread = "none"
  /\ PaneInit
  /\ ConsoleInit

\* a prompt as the processor loaded it from its prompt configuration
StoredPrompt == "stored"

\* update_begin_button_state: the button is enabled when both prompts are set
PromptsValid(sys, usr) == sys # "" /\ usr # ""
ButtonState(sys, usr) == IF PromptsValid(sys, usr) THEN "normal" ELSE "disabled"

ShellInit(paths, chosen) ==
  /\ selected_paths = paths
  /\ provider_var = chosen
  /\ processing_cancelled = FALSE
  /\ worker = "none"
  /\ next_file = 1
  /\ file_count = 0
  /\ file_success_count = 0
  /\ processing_queue = <<>>
  /\ ui = "ready"
  /\ cancel_point = None
  /\ threads = 0
  /\ started = 0
  /\ process_btn = "normal"
  /\ begin_btn = "normal"
  /\ system_prompt = StoredPrompt
  /\ user_prompt = StoredPrompt

Init ==
  /\ ShellInit(<<>>, "")
  /\ ToolsInit /\ FrontInit
  /\ api_keys \in Stores
  /\ provider_name = "default"
  /\ provider = SelectProvider(api_keys, "default", None, None).provider
  /\ client = SelectProvider(api_keys, "default", None, None).client
  /\ ledger = [k \in {} |-> 0]
  /\ outputs = [k \in {} |-> 0]
  /\ pc = "idle"
  /\ file = <<>>
  /\ processed_files = [k \in {} |-> 0]
  /\ input_json = None
  /\ attempt = 0
  /\ requests = 0
  /\ slept = 0
  /\ outcomes = <<>>
  /\ response = None
  /\ result = None
  /\ raised = ""
  /\ log = <<>>
  /\ now = 0
  /\ op = "init"
  /\ pre = [ledger |-> [k \in {} |-> 0], outputs |-> [k \in {} |-> 0],
            succeeded |-> {}]
  /\ succeeded = {}
  /\ transformed = {}

Next ==
  \/ \E f \in Inputs : process_file(f) /\ UNCHANGED <<shell, tools, front>>
  \/ AiTimeout /\ UNCHANGED <<shell, tools, front>>
  \/ AiException /\ UNCHANGED <<shell, tools, front>>
  \/ AiNotConfigured /\ UNCHANGED <<shell, tools, front>>
  \/ \E r \in Responses : AiResponse(r) /\ UNCHANGED <<shell, tools, front>>
  \/ \E path \in DOMAIN outputs : DeleteOutput(path) /\ UNCHANGED <<shell, tools, front>>

Spec == Init /\ [][Next]_vars

\* The entry of a provider is taken out of the store file from outside the
\* program, after the shell loaded its list of providers.
RemoveProvider(key) ==
  /\ pc = "idle"
  /\ key \in DOMAIN api_keys \ {"default"}
  /\ api_keys' = [k \in DOMAIN api_keys \ {key} |-> api_keys[k]]
  /\ op' = "remove_provider"
  /\ UNCHANGED <<provider_name, provider, client, ledger, outputs, pc, file,
                 processed_files, input_json, attempt, requests, slept,
                 outcomes, response, result, raised, log, now, pre, succeeded,
                 transformed>>

\* ------------------------------------------- the ledger over several inputs
\* Serialized process_file calls on inputs of one channel and of another,
\* with replies that carry the same title or different ones.
LedgerInputs == {InputA, InputC, InputD}

LedgerNext ==
  \/ \E f \in LedgerInputs : process_file(f) /\ UNCHANGED <<shell, tools, front>>
  \/ AiTimeout /\ UNCHANGED <<shell, tools, front>>
  \/ \E r \in {RespGoodA, RespGoodB, RespShort} : AiResponse(r) /\ UNCHANGED <<shell, tools, front>>
  \/ \E path \in DOMAIN outputs : DeleteOutput(path) /\ UNCHANGED <<shell, tools, front>>

LedgerSpec == Init /\ [][LedgerNext]_vars

\* ------------------------------------------- where the outputs go
\* Calls on an input with an ordinary channel name and on one whose channel
\* name the sanitizer empties, with an ordinary title and one it empties.
PathInputs == {InputA, InputC, InputE}

PathNext ==
  \/ \E f \in PathInputs : process_file(f) /\ UNCHANGED <<shell, tools, front>>
  \/ \E r \in {RespGoodA, RespGoodB, RespPunctuation} : AiResponse(r) /\ UNCHANGED <<shell, tools, front>>
  \/ \E path \in DOMAIN outputs : DeleteOutput(path) /\ UNCHANGED <<shell, tools, front>>

PathSpec == Init /\ [][PathNext]_vars

\* ------------------------------------------- the length gate on its own
\* The documents the gate is applied to: every combination of section lengths
\* around the three minimum lengths.
GateLengths(min) == (min - GateSpread + 1)..(min + GateSpread)
GateDocs ==
  {[title |-> Str(Pad("a", t)), summary |-> s, content |-> c] :
     t \in GateLengths(min_title_length),
     s \in GateLengths(min_summary_length),
     c \in GateLengths(min_content_length)}

\* reformat_transcript holds a decoded reply (kept in response) and is about
\* to check its lengths
GateInit ==
  /\ ShellInit(<<>>, "")
  /\ ToolsInit /\ FrontInit
  /\ api_keys = StoreEntries @@ "default" :> CfgGood
  /\ provider_name = "default"
  /\ provider = SelectProvider(api_keys, "default", None, None).provider
  /\ client = SelectProvider(api_keys, "default", None, None).client
  /\ ledger = [k \in {} |-> 0]
  /\ outputs = [k \in {} |-> 0]
  /\ pc = "gate"
  /\ file = InputA
  /\ processed_files = [k \in {} |-> 0]
  /\ input_json = load_input(InputA)
  /\ attempt = 0
  /\ requests = 1
  /\ slept = 0
  /\ outcomes = <<"response">>
  /\ \E doc \in GateDocs : response = Some(doc)
  /\ result = None
  /\ raised = ""
  /\ log = <<>>
  /\ now = 1
  /\ op = "ai_call"
  /\ pre = [ledger |-> [k \in {} |-> 0], outputs |-> [k \in {} |-> 0],
            succeeded |-> {}]
  /\ succeeded = {}
  /\ transformed = {}

\* the length check: a document that passes goes on to be saved, any other
\* makes reformat_transcript print the warning and return None
GateCheck ==
  /\ pc = "gate"
  /\ op' = "gate"
  /\ IF PassesGate(response[1])
     THEN /\ pc' = "save"
          /\ log' = log \o <<Msg("Response is valid! Saving to file", "info")>>
     ELSE /\ pc' = "idle"
          /\ log' = log \o
               <<Msg("Skipping file: Reformatted content is too short", "warning")>>
  /\ UNCHANGED <<api_keys, provider_name, provider, client, ledger, outputs, file, processed_files,
                 input_json, attempt, requests, slept, outcomes, response,
                 result, raised, now, pre, succeeded, transformed>>

GateNext == GateCheck /\ UNCHANGED <<shell, tools, front>>

GateSpec == GateInit /\ [][GateNext]_vars

\* ----------------------------------- the processor and its provider store
\* The processor is given other providers between calls, the default is
\* set from the shell and the entry of p1 is edited in the store file.
ProviderNext ==
  \/ \E name \in ProviderNames : set_provider(name) /\ UNCHANGED <<shell, tools, front>>
  \/ \E key \in ProviderIds : set_default_provider(key) /\ UNCHANGED <<shell, tools, front>>
  \/ \E cfg \in {CfgGood, CfgEdited} : EditProvider("p1", cfg) /\ UNCHANGED <<shell, tools, front>>
  \/ process_file(InputA) /\ UNCHANGED <<shell, tools, front>>
  \/ AiTimeout /\ UNCHANGED <<shell, tools, front>>
  \/ AiNotConfigured /\ UNCHANGED <<shell, tools, front>>
  \/ \E r \in {RespGoodA, RespShort} : AiResponse(r) /\ UNCHANGED <<shell, tools, front>>

ProviderSpec == Init /\ [][ProviderNext]_vars

\* ------------------------------------------------- the shell's batch run
\* The selections a batch is started on, and the providers chosen for it
\* ("typed" is a name the shell did not load).
Batches == {<<InputA, InputC, InputB>>, <<InputC, InputBad, InputA>>}
Choices == {"p1", "typed"}

\* processing_queue.put((level, message))
Put(level, text) == [level |-> level, text |-> text]
Done == Put("done", "")

\* the processor a shell constructs: the store has a default provider
ProcessorInit ==
  /\ api_keys = StoreEntries @@ "default" :> CfgGood
  /\ provider_name = "default"
  /\ provider = SelectProvider(api_keys, "default", None, None).provider
  /\ client = SelectProvider(api_keys, "default", None, None).client
  /\ ledger = [k \in {} |-> 0]
  /\ outputs = [k \in {} |-> 0]
  /\ pc = "idle"
  /\ file = <<>>
  /\ processed_files = [k \in {} |-> 0]
  /\ input_json = None
  /\ attempt = 0
  /\ requests = 0
  /\ slept = 0
  /\ outcomes = <<>>
  /\ response = None
  /\ result = None
  /\ raised = ""
  /\ log = <<>>
  /\ now = 0
  /\ op = "init"
  /\ pre = [ledger |-> [k \in {} |-> 0], outputs |-> [k \in {} |-> 0],
            succeeded |-> {}]
  /\ succeeded = {}
  /\ transformed = {}

BatchInit ==
  /\ \E paths \in Batches, chosen \in Choices : ShellInit(paths, chosen)
  /\ ProcessorInit
  /\ ToolsInit /\ FrontInit

\* start_processing of AiTranscriptProcessor.py gives unbind a function where
\* tk takes the id of a binding: TypeError, after the buttons were set and
\* before begin_processing comes to its update_progress() call. ytt.py
\* gives the id it kept.
StartRaises(g) == g = "AiTranscriptProcessor.py"

\* begin_processing: the flag is cleared, the thread is started,
\* start_processing turns the begin button into the cancel button and
\* update_progress() starts the polling of the queue
begin_processing ==
  /\ ui = "ready"
  /\ begin_btn = "normal"
  /\ started < MaxBatches
  /\ selected_paths # <<>>
  /\ provider_var # ""
  /\ processing_cancelled' = FALSE
  /\ worker' = "start"
  /\ threads' = threads + 1
  /\ started' = started + 1
  /\ process_btn' = "disabled"
  /\ ui' = "processing"
  /\ cancel_point' = None
  /\ polling' = IF StartRaises(gui) THEN polling ELSE TRUE
  /\ UNCHANGED <<selected_paths, provider_var, next_file, file_count,
                 file_success_count, processing_queue, begin_btn,
                 system_prompt, user_prompt>>
  /\ UNCHANGED <<processor, tools, pane, console, gui, delivered, processing_thread>>

\* cancel_processing: the flag is set and the button is disabled
cancel_processing ==
  /\ ui = "processing"
  /\ processing_cancelled' = TRUE
  /\ ui' = "cancelling"
  /\ begin_btn' = "disabled"
  /\ cancel_point' = Some([worker |-> worker, pc |-> pc, next_file |-> next_file])
  /\ UNCHANGED <<selected_paths, provider_var, worker, next_file, file_count,
                 file_success_count, processing_queue, threads, started,
                 process_btn, system_prompt, user_prompt>>
  /\ UNCHANGED <<processor, tools, front>>

\* _process_files up to its loop: the key of the chosen provider is looked
\* up (ValueError when the shell has none for it) and given to set_provider
WorkerStart ==
  /\ worker = "start"
  /\ IF provider_var \in ProviderIds
     THEN /\ set_provider(provider_var)
          /\ worker' = "loop"
          /\ next_file' = 1
          /\ file_count' = 0
          /\ file_success_count' = 0
          /\ UNCHANGED <<processing_queue, threads>>
     ELSE /\ worker' = "failed"
          /\ threads' = threads - 1
          /\ processing_queue' = processing_queue
               \o <<Put("error", "Error during processing"), Done>>
          /\ UNCHANGED <<next_file, file_count, file_success_count>>
          /\ UNCHANGED processor
  /\ UNCHANGED <<selected_paths, provider_var, processing_cancelled, ui,
                 cancel_point, started, process_btn,
                 system_prompt, user_prompt, begin_btn>>
  /\ UNCHANGED <<tools, front>>

\* faulty variant: the loop never looks at the flag
SeesCancelNever(flag) == FALSE

\* "if self.processing_cancelled" at the head of the loop body
SeesCancel(flag) == flag

\* The head of the loop: the loop is over, or the flag is found set and
\* InterruptedError ends the batch, or the next file is taken up.
WorkerLoop ==
  /\ worker = "loop"
  /\ IF next_file > Len(selected_paths)
     THEN /\ worker' = "finished"
          /\ threads' = threads - 1
          /\ processing_queue' = processing_queue
               \o <<Put(IF file_success_count > 0 THEN "success" ELSE "info",
                        "Processing complete"), Done>>
          /\ UNCHANGED file_count
     ELSE IF SeesCancel(processing_cancelled)
     THEN /\ worker' = "cancelled"
          /\ threads' = threads - 1
          /\ processing_queue' = processing_queue
               \o <<Put("warning", "Processing cancelled by user"), Done>>
          /\ UNCHANGED file_count
     ELSE /\ worker' = "go"
          /\ file_count' = file_count + 1
          /\ UNCHANGED <<processing_queue, threads>>
  /\ UNCHANGED <<selected_paths, provider_var, processing_cancelled, next_file,
                 file_success_count, ui, cancel_point, started, process_btn,
                 system_prompt, user_prompt, begin_btn>>
  /\ UNCHANGED <<processor, tools, front>>

\* self.processor.process_file(file) is entered
WorkerCall ==
  /\ worker = "go"
  /\ process_file(selected_paths[next_file])
  /\ worker' = "call"
  /\ next_file' = next_file + 1
  /\ UNCHANGED <<selected_paths, provider_var, processing_cancelled, file_count,
                 file_success_count, processing_queue, ui, cancel_point,
                 threads, started, process_btn,
                 system_prompt, user_prompt, begin_btn>>
  /\ UNCHANGED <<tools, front>>

\* process_file is left: its result is counted, or what it raised ends the
\* batch in the handler for Exception
WorkerReturn ==
  /\ worker = "call"
  /\ pc = "idle"
  /\ IF raised # ""
     THEN /\ worker' = "failed"
          /\ threads' = threads - 1
          /\ processing_queue' = processing_queue
               \o <<Put("error", "Error during processing"), Done>>
          /\ UNCHANGED file_success_count
     ELSE /\ worker' = "loop"
          /\ file_success_count' =
               file_success_count + (IF result # None THEN 1 ELSE 0)
          /\ UNCHANGED <<processing_queue, threads>>
  /\ UNCHANGED <<selected_paths, provider_var, processing_cancelled, next_file,
                 file_count, ui, cancel_point, started, process_btn,
                 system_prompt, user_prompt, begin_btn>>
  /\ UNCHANGED <<processor, tools, front>>

\* the texts a prompt editor is saved with
PromptTexts == {"", "edited"}
PromptTypes == {"system", "user"}

\* save_prompt_changes, called by the editor's save (start_processing leaves
\* both edit buttons enabled, so at any time): the prompt is assigned to
\* the processor, then update_begin_button_state sets the button
save_prompt_changes(prompt_type, new_prompt) ==
  /\ system_prompt' = IF prompt_type = "system" THEN new_prompt ELSE system_prompt
  /\ user_prompt' = IF prompt_type = "system" THEN user_prompt ELSE new_prompt
  /\ begin_btn' = ButtonState(system_prompt', user_prompt')
  /\ UNCHANGED <<selected_paths, provider_var, processing_cancelled, worker,
                 next_file, file_count, file_success_count, processing_queue,
                 ui, cancel_point, threads, started, process_btn>>
  /\ UNCHANGED <<processor, tools, front>>

BatchNext ==
  \/ \E t \in PromptTypes, new \in PromptTexts : save_prompt_changes(t, new)
  \/ begin_processing
  \/ cancel_processing
  \/ WorkerStart
  \/ WorkerLoop
  \/ WorkerCall
  \/ WorkerReturn
  \/ AiTimeout /\ UNCHANGED <<shell, tools, front>>
  \/ \E r \in {RespGoodA, RespGoodB, RespShort} : AiResponse(r) /\ UNCHANGED <<shell, tools, front>>
  \/ RemoveProvider("p1") /\ UNCHANGED <<shell, tools, front>>

BatchSpec == BatchInit /\ [][BatchNext]_vars

\* ------------------------------------------------- replies with text around
\* One transformation whose reply is a JSON object with text before and
\* after it: the text before has no "{" in it, the text after no "}".
MaxAround == 2

RECURSIVE SeqsUpTo(_, _)
SeqsUpTo(S, n) ==
  IF n = 0 THEN {<<>>}
  ELSE LET shorter == SeqsUpTo(S, n - 1)
       IN shorter \cup {Append(q, x) : q \in shorter, x \in S}

Prefixes == SeqsUpTo({"prose", "}"}, MaxAround)
Suffixes == SeqsUpTo({"prose", "{"}, MaxAround)
Objects == {<<"{", "title:A", "summary:101", "content:501", "}">>,
            <<"{", "content:501", "title:B", "summary:101", "extra:1", "}">>,
            <<"{", "extra:1", "summary:101", "title:A", "content:501", "}">>}
Surrounded == {Response("text", a \o J \o b) :
                 a \in Prefixes, J \in Objects, b \in Suffixes}

ParseInit == ShellInit(<<>>, "") /\ ProcessorInit /\ ToolsInit /\ FrontInit

ParseNext ==
  \/ process_file(InputA) /\ UNCHANGED <<shell, tools, front>>
  \/ \E r \in Surrounded : AiResponse(r) /\ UNCHANGED <<shell, tools, front>>

ParseSpec == ParseInit /\ [][ParseNext]_vars

\* ------------------------------------------------- the sanitizer on its own
\* _sanitize_filename applied to every text of up to MaxLen characters over
\* Alphabet, to two longer titles and to values that are not strings.
MaxLen == 3
Alphabet == {"a", " ", "!", ":", "_", "-", "TAB", "U+00E9", "U+1F600"}
LongTitles == {<<"a", " ", "!", " ", "b">>,
               <<"T", "a", ":", " ", "U", "b", "!">>}
NonStrings == {[type |-> "float", repr |-> <<"1", ".", "5">>],
               Num(<<"1">>),
               [type |-> "list", repr |-> <<"[", "1", ",", " ", "1", "]">>]}
Names == {Str(t) : t \in SeqsUpTo(Alphabet, MaxLen) \cup LongTitles}
           \cup NonStrings

SanitizeInit ==
  /\ ShellInit(<<>>, "")
  /\ ProcessorInit
  /\ raw_name \in Names
  /\ sanitized = <<>>
  /\ fetches = <<>>
  /\ FrontInit

\* one call of _sanitize_filename
Sanitize ==
  /\ sanitized = <<>>
  /\ sanitized' = <<sanitize_filename(raw_name)>>
  /\ UNCHANGED <<raw_name, fetches, processor, shell, front>>

\* the name it returned is given to it again
SanitizeAgain ==
  /\ sanitized # <<>>
  /\ raw_name' = Str(sanitized[1])
  /\ sanitized' = <<sanitize_filename(raw_name')>>
  /\ UNCHANGED <<fetches, processor, shell, front>>

SanitizeNext == Sanitize \/ SanitizeAgain

SanitizeSpec == SanitizeInit /\ [][SanitizeNext]_vars

\* ------------------------------------------------- the downloader
\* YouTubeTranscriptDownloader.fetch_single_video, called up to MaxFetches
\* times; each call leaves one record in fetches.
MaxFetches == 2

VideoUrls == {"https://www.youtube.com/watch?v=dQw4w9WgXcQ", "not a video url"}
\* re.search(youtube_video_id, video_url) finds an id
HasVideoId(video_url) == video_url # "not a video url"

\* metadata dicts: key -> value, "" for an empty value
required_keys == {"title", "channel_title", "publish_date", "duration", "tags"}
MetaComplete == [k \in required_keys |-> "value"]
MetaNoTags == [k \in required_keys |-> IF k = "tags" THEN "" ELSE "value"]
MetaEmpty == [k \in {} |-> ""]
\* the metadata argument: None, or a dict
MetadataArgs == {None, Some(MetaEmpty), Some(MetaNoTags), Some(MetaComplete)}
\* what fetch_video_metadata returns: the dict built from the API's item,
\* or {} when there is no item or the request failed
ApiResults == {MetaEmpty, MetaComplete}
\* how YouTubeTranscriptApi.get_transcript ends
TranscriptResults == {"transcript", "TranscriptsDisabled", "NoTranscriptFound"}

\* truth value of an Optional dict: None and {} are false
Truthy(metadata) == metadata # None /\ DOMAIN metadata[1] # {}

is_metadata_valid(metadata) ==
  \A key \in required_keys : key \in DOMAIN metadata /\ metadata[key] # ""

\* save_transcript: its first statement calls self.sanitize_filename, which
\* the class does not define (its method is _sanitize_filename), so it
\* raises AttributeError before anything is written
save_transcript(metadata) == [raised |-> "AttributeError", written |-> FALSE]

\* the record one call of fetch_single_video leaves
FetchRecord(video_url, metadata, api, transcript) ==
  LET call == [video_url |-> video_url, metadata |-> metadata, api |-> api,
               transcript |-> transcript, api_asked |-> FALSE,
               transcript_asked |-> FALSE, saved |-> FALSE, printed |-> <<>>]
      refetch == Truthy(metadata) /\ ~is_metadata_valid(metadata[1])
      used == IF refetch THEN Some(api) ELSE metadata
      checked ==
        IF ~Truthy(metadata) THEN <<>>
        ELSE IF refetch THEN <<"Incomplete or invalid metadata. Fetching from API.">>
        ELSE <<"Using provided metadata">>
  IN IF ~HasVideoId(video_url)
     THEN [call EXCEPT !.printed = <<"Invalid URL. Must contain a valid YouTube video ID.">>]
     ELSE IF ~Truthy(used)
     THEN [call EXCEPT !.api_asked = refetch,
                       !.printed = checked \o <<"Failed to fetch metadata. Skipping.">>]
     ELSE LET done ==
                CASE transcript = "TranscriptsDisabled" ->
                       [saved |-> FALSE, msg |-> "Transcripts are disabled for this video."]
                  [] transcript = "NoTranscriptFound" ->
                       [saved |-> FALSE, msg |-> "No transcript found for this video."]
                  [] OTHER ->
                       IF save_transcript(used[1]).raised = ""
                       THEN [saved |-> save_transcript(used[1]).written,
                             msg |-> "Transcript saved successfully."]
                       ELSE [saved |-> save_transcript(used[1]).written,
                             msg |-> "An error occurred"]
          IN [call EXCEPT !.api_asked = refetch,
                          !.transcript_asked = TRUE,
                          !.saved = done.saved,
                          !.printed = checked \o <<done.msg>>]

fetch_single_video(video_url, metadata, api, transcript) ==
  /\ Len(fetches) < MaxFetches
  /\ fetches' = Append(fetches, FetchRecord(video_url, metadata, api, transcript))
  /\ UNCHANGED <<raw_name, sanitized, processor, shell, front>>

DownloaderInit == ShellInit(<<>>, "") /\ ProcessorInit /\ ToolsInit /\ FrontInit

DownloaderNext ==
  \E video_url \in VideoUrls, metadata \in MetadataArgs, api \in ApiResults,
     transcript \in TranscriptResults :
    fetch_single_video(video_url, metadata, api, transcript)

DownloaderSpec == DownloaderInit /\ [][DownloaderNext]_vars

\* ------------------------------------------------- the shell's selection
\* The window of the tk shell while threads run: the selection handlers, the
\* begin and cancel handlers, and the end of a thread (its work is what
\* BatchSpec follows step by step).
Directories == {"transcripts", "archive"}
Vias == {"button", "shortcut"}

\* update_selection_display: the selection frame is rebuilt with a new
\* begin button whose command is begin_processing, and Ctrl-b is bound to it
update_selection_display(paths) ==
  /\ selected_paths' = paths
  /\ ui' = "ready"
  /\ begin_btn' = ButtonState(system_prompt, user_prompt)

\* what lets the user reach a selection handler: its button when it is
\* enabled, its shortcut always (Ctrl-o and Ctrl-d are bound once, in the
\* constructor, and never unbound)
Reachable(via) == via = "shortcut" \/ process_btn = "normal"

\* select_files: the dialog returned these files
select_files(files, via) ==
  /\ Reachable(via)
  /\ files # <<>>
  /\ update_selection_display(files)
  /\ UNCHANGED <<provider_var, processing_cancelled, worker, next_file,
                 file_count, file_success_count, processing_queue,
                 cancel_point, threads, started, process_btn,
                 system_prompt, user_prompt>>
  /\ UNCHANGED <<processor, tools, front>>

\* select_directory: the dialog returned this directory
select_directory(directory, via) ==
  /\ Reachable(via)
  /\ update_selection_display(<<directory>>)
  /\ UNCHANGED <<provider_var, processing_cancelled, worker, next_file,
                 file_count, file_success_count, processing_queue,
                 cancel_point, threads, started, process_btn,
                 system_prompt, user_prompt>>
  /\ UNCHANGED <<processor, tools, front>>

\* a thread running _process_files comes to its end and reports it
ThreadEnds ==
  /\ threads > 0
  /\ threads' = threads - 1
  /\ worker' = IF threads = 1 THEN "finished" ELSE worker
  /\ processing_queue' = processing_queue
       \o <<Put("info", "Processing complete"), Done>>
  /\ UNCHANGED <<selected_paths, provider_var, processing_cancelled, next_file,
                 file_count, file_success_count, ui, cancel_point, started,
                 process_btn,
                 system_prompt, user_prompt, begin_btn>>
  /\ UNCHANGED <<processor, tools, front>>

ShellStart ==
  /\ \E chosen \in Choices : ShellInit(<<>>, chosen)
  /\ ProcessorInit
  /\ ToolsInit /\ FrontInit

ShellNext ==
  \/ \E files \in Batches, via \in Vias : select_files(files, via)
  \/ \E directory \in Directories, via \in Vias : select_directory(directory, via)
  \/ begin_processing
  \/ cancel_processing
  \/ ThreadEnds

ShellSpec == ShellStart /\ [][ShellNext]_vars

\* ============================================================ properties
\* C24: a reply prefix + J + suffix, J an object with title, summary and
\* content, no "{" in prefix and no "}" in suffix, is parsed to exactly the
\* title, summary and content of J
C24_SurroundingTextIgnored ==
  \A a \in Prefixes, J \in Objects, b \in Suffixes :
    (op = "ai_call" /\ response = Some(Response("text", a \o J \o b)))
      => /\ result # None
         /\ \A k \in RequiredKeys : result[1][k] = json_loads(J)[1][k]

C24_Witness ==
  /\ op = "ai_call"
  /\ response = Some(Response("text", <<"}", "prose">> \o
         <<"{", "content:501", "title:B", "summary:101", "extra:1", "}">>
         \o <<"{">>))
  /\ result # None
  /\ result[1].title = Str(TitleB)

\* C22: between the start and the end of a batch no assignment of the
\* processor's system_prompt or user_prompt takes effect
C22_PromptsFixedDuringRun ==
  [][threads > 0 => UNCHANGED <<system_prompt, user_prompt>>]_vars

\* C23: with an empty system or user prompt no request is sent to the
\* provider, however the run was started
C23_EmptyPromptSendsNothing ==
  [][~PromptsValid(system_prompt, user_prompt) => requests' <= requests]_vars

\* C21: in a shell at most one processing thread is alive at any time,
\* whatever the user selects, begins or cancels while a run is in progress
C21_OneThread == threads <= 1

\* the state a process_file call has just left (it returned or raised)
Returned == pc = "idle" /\ op \in {"process_file", "ai_call"}
InCall == op \in {"process_file", "ai_call"}

\* the ledger entry of the call's input when the call started, and whether
\* the output file it names existed then
HadEntry == basename(file) \in DOMAIN pre.ledger
HadLiveEntry ==
  HadEntry /\ pre.ledger[basename(file)].output_path \in DOMAIN pre.outputs
HadStaleEntry ==
  HadEntry /\ pre.ledger[basename(file)].output_path \notin DOMAIN pre.outputs

NothingWritten == ledger = pre.ledger /\ outputs = pre.outputs

\* the reply of the response the call ended with, decoded
Decoded == json_loads(StripToBraces(response[1].text))
GotText == response # None /\ response[1].kind = "text"
GotUnparsable ==
  GotText /\ (Len(Decoded) = 0 \/ ~(RequiredKeys \subseteq DOMAIN Decoded[1]))
GotDocument == GotText /\ ~GotUnparsable
AllTimedOut ==
  /\ Len(outcomes) > 0
  /\ \A i \in 1..Len(outcomes) : outcomes[i] = "timeout"

\* C26: the sanitizer is idempotent: a name it returned comes back unchanged
\* when it is sanitized again
C26_SanitizeIdempotent ==
  [][(sanitized # <<>> /\ raw_name' = Str(sanitized[1])) => sanitized' = sanitized]_vars

\* the characters of [A-Za-z0-9] and the letters outside ASCII among the
\* characters of the texts
AsciiAlnum == {"a", "b", "c", "T", "U", "1"}
OtherLetters == {"U+00E9"}
Trimmed(t) == t = <<>> \/ (t[1] \notin {" ", "TAB"} /\ t[Len(t)] \notin {" ", "TAB"})
Sanitized(x) == sanitized # <<>> /\ raw_name = x

\* C27 as stated: for every string the sanitized name has no ':' and no '_',
\* no character outside [A-Za-z0-9_\- ] and no leading or trailing whitespace
C27_OnlyAsciiNameChars ==
  (sanitized # <<>> /\ raw_name.type = "str")
    => /\ \A i \in DOMAIN sanitized[1] :
            /\ sanitized[1][i] \notin {":", "_"}
            /\ sanitized[1][i] \in AsciiAlnum \cup {"_", "-", " "}
       /\ Trimmed(sanitized[1])

\* C27 as amended: for every string the sanitized name has no ':' and no
\* '_', holds only letters and digits (of any script), '-' and ' ', and has
\* no leading or trailing whitespace
C27_OnlyNameChars ==
  (sanitized # <<>> /\ raw_name.type = "str")
    => /\ \A i \in DOMAIN sanitized[1] :
            /\ sanitized[1][i] \notin {":", "_"}
            /\ sanitized[1][i] \in AsciiAlnum \cup OtherLetters \cup {"-", " "}
       /\ Trimmed(sanitized[1])

C27_Witness ==
  /\ Sanitized(Str(<<"U+00E9", ":", "_">>))
  /\ sanitized[1] = <<"U+00E9", " ", "-">>

\* C28: a value that is not a string is sanitized as its string
\* representation is
C28_NonStringSanitized ==
  (sanitized # <<>> /\ raw_name.type # "str")
    => sanitized[1] = sanitize_filename(Str(raw_name.repr))

\* C29: fetch_single_video called without metadata asks the API for it and
\* goes on to fetch and save the transcript; it skips the video for missing
\* metadata only when the API gave nothing
C29_FetchesMissingMetadata ==
  \A i \in DOMAIN fetches :
    (HasVideoId(fetches[i].video_url) /\ fetches[i].metadata = None)
      => /\ fetches[i].api_asked
         /\ DOMAIN fetches[i].api # {}
              => /\ fetches[i].transcript_asked
                 /\ fetches[i].transcript = "transcript" => fetches[i].saved

\* where in the log of the current transformation the notification of
\* attempt k is (0 when it is not there)
Announced(k) ==
  LET at == {i \in DOMAIN log :
               log[i] = [msg |-> "Sending request to AI", type |-> "", n |-> k]}
  IN IF at = {} THEN 0 ELSE CHOOSE i \in at : \A j \in at : i <= j

\* C30: in one transformation every call made so far was announced by a
\* "sending request (attempt k)" notification, in the order of the attempts,
\* and between the notification of a call that timed out and that of the
\* next call there is a "retrying" notification
C30_AttemptsAnnounced ==
  InCall =>
    /\ \A k \in 1..requests : Announced(k) > 0
    /\ \A k \in 1..(requests - 1) : Announced(k) < Announced(k + 1)
    /\ \A k \in 1..(Len(outcomes) - 1) :
         outcomes[k] = "timeout" =>
           \E j \in DOMAIN log :
             /\ Announced(k) < j
             /\ j < Announced(k + 1)
             /\ log[j].msg = "Request timed out, retrying"

C30_Witness ==
  /\ Returned
  /\ outcomes = <<"timeout", "timeout", "response">>
  /\ requests = MAX_RETRIES
  /\ Announced(MAX_RETRIES) > 0

\* C25: when the decoded reply lacks title, summary or content the call
\* fails with an error that names every absent key, and produces no document
C25_AbsentFieldNamed ==
  \A k \in RequiredKeys :
    (Returned /\ GotText /\ Len(Decoded) = 1 /\ k \notin DOMAIN Decoded[1])
      => /\ result = None
         /\ outputs = pre.outputs
         /\ \E i \in DOMAIN log :
              log[i].type = "error" /\ k \in KeysNamed(log[i].msg)

\* C1: a call on an input whose base filename has a ledger entry whose output
\* file exists returns None at once: the input is not loaded, no request is
\* issued, and neither the ledger nor any output file is changed.
C1_SkipProcessed ==
  (InCall /\ HadLiveEntry) =>
     /\ pc = "idle"
     /\ result = None /\ raised = ""
     /\ input_json = None
     /\ requests = 0
     /\ NothingWritten

C1_Witness ==
  /\ Returned /\ HadLiveEntry
  /\ file = InputB
  /\ pre.ledger[basename(file)].output_path = OutputPath(Str(<<"T", "_", "c">>), Str(TitleA))

\* C2: with no external change since an input's transformation succeeded, a
\* repeated call on that input issues no request and leaves the ledger and
\* every output file as they were.
C2_RepeatIsIdempotent ==
  (InCall /\ file \in pre.succeeded) =>
     /\ pc = "idle"
     /\ requests = 0
     /\ result = None
     /\ NothingWritten

C2_Witness ==
  /\ Returned
  /\ file = InputC /\ file \in pre.succeeded
  /\ Cardinality(pre.succeeded) = 2

\* C3: a call on an input whose ledger entry names an output file that no
\* longer exists is not skipped: the input is loaded and (with a client
\* configured) the request is issued again; when the call returns a result
\* the entry holds the new output path and a newer timestamp.
C3_StaleIsReprocessed ==
  (InCall /\ HadStaleEntry /\ load_input(file) # None) =>
     /\ input_json = load_input(file)
     /\ (Returned /\ Configured) => requests >= 1
     /\ (Returned /\ result # None) =>
          /\ ledger[basename(file)].output_path = result[1].filepath
          /\ ledger[basename(file)].processed_date = now
          /\ ledger[basename(file)].processed_date
               > pre.ledger[basename(file)].processed_date

C3_Witness ==
  /\ Returned /\ HadStaleEntry
  /\ result # None
  /\ ledger[basename(file)].output_path # pre.ledger[basename(file)].output_path

\* C4: a call that ends without a result and without a complete decoded
\* document (every attempt timed out, the request failed, the provider
\* reported an error, the reply was empty, unparsable or incomplete) creates
\* no output file and leaves the ledger as it was; and a base filename has a
\* ledger entry only after a transformation of an input of that name
\* succeeded.
C4_FailureWritesNothing ==
  /\ (Returned /\ result = None /\ ~GotDocument) => NothingWritten
  /\ DOMAIN ledger \subseteq transformed

C4_Witness ==
  /\ Returned /\ AllTimedOut /\ result = None
  /\ DOMAIN pre.ledger # {}
  /\ DOMAIN pre.outputs # {}

\* C5: one transformation issues at most MAX_RETRIES requests, exactly
\* MAX_RETRIES when every attempt timed out, and after a timeout on an attempt
\* that is not the last the call has slept the fixed delay and is back at the
\* head of the loop, about to issue the next request.
C5_TimeoutRetried ==
  /\ requests <= MAX_RETRIES
  /\ requests = Len(outcomes)
  /\ (Returned /\ AllTimedOut) =>
        (requests = MAX_RETRIES /\ slept = (MAX_RETRIES - 1) * RETRY_DELAY)
  /\ slept = RETRY_DELAY * Cardinality({i \in 1..Len(outcomes) :
                 outcomes[i] = "timeout" /\ i < MAX_RETRIES})
  /\ (InCall /\ Len(outcomes) > 0 /\ Len(outcomes) < MAX_RETRIES
        /\ outcomes[Len(outcomes)] = "timeout")
       => (pc = "request" /\ attempt = Len(outcomes))

C5_Witness ==
  /\ Returned
  /\ outcomes = <<"timeout", "timeout", "timeout">>
  /\ result = None

\* C6: a failure of the call other than a timeout ends the transformation:
\* it is the last request of the call, on whichever attempt it happened.
C6_OtherFailureNotRetried ==
  InCall =>
    \A i \in 1..Len(outcomes) :
       outcomes[i] = "error" =>
          /\ i = Len(outcomes)
          /\ pc = "idle"
          /\ result = None
          /\ NothingWritten

C6_Witness ==
  /\ Returned
  /\ outcomes = <<"timeout", "error">>

\* C7 (as the specification states it): a call that ends on an empty message
\* body has used up the whole attempt budget.
C7_EmptyBodyRetried ==
  (Returned /\ response # None /\ response[1].kind = "empty")
     => requests = MAX_RETRIES

\* C8 (as the specification states it): a call that ends on a reply that does
\* not decode or lacks a required field has re-issued the request until the
\* attempt budget was used up.
C8_ParseFailureRetried ==
  (Returned /\ GotUnparsable) => requests = MAX_RETRIES

\* C9 (as the specification states it): a failed transformation surfaces to
\* the caller of process_file as something other than the plain None of a
\* deliberate skip.
C9_FailureIsTyped ==
  (Returned /\ requests > 0
     /\ (response = None \/ response[1].kind = "error" \/ GotUnparsable))
    => <<result, raised>> # <<None, "">>

\* C10: a decoded document that fails the minimum-length policy (title of at
\* most 20, summary of at most 100 or content of at most 500 characters) is
\* skipped: the call returns None, writes no file and leaves the ledger as it
\* was, and the next process_file call on the same input is not skipped: it
\* loads the input and enters the request loop again.
TooShortReturned ==
  /\ pc = "idle" /\ op = "ai_call"
  /\ GotDocument
  /\ \/ Len(Decoded[1].title.repr) <= 20
     \/ Decoded[1].summary <= 100
     \/ Decoded[1].content <= 500

C10_TooShortIsSkipped ==
  [][ /\ TooShortReturned' => (result' = None /\ raised' = "" /\ NothingWritten')
      /\ (TooShortReturned /\ op' = "process_file" /\ file' = file)
            => (input_json' # None /\ pc' = "request" /\ requests' = 0) ]_vars

C10_Witness ==
  /\ TooShortReturned
  /\ response = Some(RespShort)
  /\ HadStaleEntry

C12_OutputPathAgrees ==
  (Returned /\ result # None) =>
    LET channel == sanitize_filename(load_input(file)[1].channel_name)
        title == sanitize_filename(Decoded[1].title)
        path == path_join(path_join(<<"processed">>, channel), title \o <<".json">>)
    IN /\ path \in DOMAIN outputs
       /\ outputs[path].complete
       /\ basename(file) \in DOMAIN ledger
       /\ ledger[basename(file)].output_path = path
       /\ result[1].filepath = path

C12_Witness ==
  /\ Returned /\ result # None
  /\ file = InputC /\ response = Some(RespGoodB)
  /\ result[1].filepath =
       <<"processed", "/", "U", " ", "-", " ", "1", "/">>
         \o Pad("a", 18) \o <<" ", "-", " ", "b", "c", ".json">>

\* C13: every output file that was written whole holds exactly the three
\* fields title, summary and content, also when the reply's object carried
\* more keys.
C13_ExactlyThreeFields ==
  \A path \in DOMAIN outputs :
    outputs[path].complete => DOMAIN outputs[path].json = RequiredKeys

\* C14: a process_file call either leaves the output file written whole and
\* the ledger entry of its input pointing at it, or leaves the ledger and the
\* output tree as they were; no partly written output file is left behind.
C14_AllOrNothing ==
  /\ Returned =>
       \/ /\ result # None
          /\ basename(file) \in DOMAIN ledger
          /\ ledger[basename(file)].output_path \in DOMAIN outputs
          /\ outputs[ledger[basename(file)].output_path].complete
       \/ NothingWritten
  /\ \A path \in DOMAIN outputs : outputs[path].complete

\* C15: the ledger is keyed by the base filename alone: once d1/x.json has
\* been processed successfully and its output file is still there, a call on
\* d2/x.json (and the other way round) is skipped: no request is issued and
\* nothing is loaded or written.
C15_SameBasenameSkipped ==
  (InCall /\ \E g \in pre.succeeded : g # file /\ {g, file} = {InputA, InputB}) =>
     /\ pc = "idle"
     /\ result = None /\ raised = ""
     /\ input_json = None
     /\ requests = 0
     /\ Len(log) = 2 /\ log[2] = Msg("File already processed. Skipping", "warning")
     /\ NothingWritten

C15_Witness ==
  /\ Returned /\ file = InputB /\ InputA \in pre.succeeded
  /\ requests = 0 /\ result = None

\* the selected provider lacks a key or a URL
Incomplete == provider # None /\ (provider[1].api_key = "" \/ provider[1].base_url = "")

\* C16: a client is built only from a provider whose key and URL are both
\* non-empty; while the selected provider has an empty key or URL the client
\* is unset, and a call then sends no request and fails with a configuration
\* error.
C16_ClientNeedsKeyAndUrl ==
  /\ client # None => (client[1].api_key # "" /\ client[1].base_url # "")
  /\ Incomplete =>
       /\ client = None
       /\ InCall => requests = 0
       /\ (Returned /\ input_json # None) => raised = "ConfigurationError"

\* C17: selecting a provider id the store does not hold fails with a
\* ProviderError raised to the caller.
C17_AbsentProviderFails ==
  (op = "set_provider" /\ provider_name \notin DOMAIN api_keys) =>
     raised = "ProviderError"

\* C18: setting the default stores under "default" a copy of the chosen
\* provider's config as it is then, whatever default was there before, and
\* leaves every other entry as it was; a later edit of the provider's own
\* entry leaves the stored default as it is.
C18_DefaultIsACopy ==
  [][/\ op' = "set_default_provider" =>
          /\ DOMAIN api_keys' = DOMAIN api_keys \cup {"default"}
          /\ api_keys'["default"] = api_keys[provider_name']
          /\ \A k \in DOMAIN api_keys \ {"default"} : api_keys'[k] = api_keys[k]
     /\ op' = "edit_provider" =>
          /\ DOMAIN api_keys' = DOMAIN api_keys
          /\ "default" \in DOMAIN api_keys =>
                api_keys'["default"] = api_keys["default"]
    ]_vars

C18_Witness ==
  /\ op = "edit_provider" /\ provider_name = "p1"
  /\ api_keys["p1"] = CfgGood
  /\ "default" \in DOMAIN api_keys /\ api_keys["default"] = CfgEdited

\* C19: in a batch run the cancellation flag is looked at between files
\* only.  A call is left only when it has returned or raised, whether or
\* not cancel was pressed meanwhile; a call is entered only after the flag
\* was found clear; when the flag is set at the head of the loop and a file
\* is left, the batch stops there, with the cancellation message and the end
\* mark on the queue, and starts no call afterwards.
C19_CancelAtFileBoundary ==
  [][/\ (worker = "call" /\ worker' # "call") =>
          (pc = "idle" /\ worker' \in {"loop", "failed"})
     /\ now' # now => worker = "go"
     /\ (worker = "loop" /\ worker' # "loop" /\ processing_cancelled
           /\ next_file <= Len(selected_paths)) => worker' = "cancelled"
     /\ (worker # "cancelled" /\ worker' = "cancelled") =>
          /\ worker = "loop" /\ processing_cancelled /\ pc = "idle"
          /\ now' = now
          /\ processing_queue' = processing_queue
               \o <<Put("warning", "Processing cancelled by user"), Done>>
     /\ worker = "cancelled" => (worker' = "cancelled" /\ now' = now)
    ]_vars

\* cancel was pressed while the request of a file was under way; that call
\* went on to write its output and its ledger entry, and the batch stopped
\* before the next file
C19_Witness ==
  /\ worker = "cancelled"
  /\ cancel_point # None
  /\ cancel_point[1].worker = "call" /\ cancel_point[1].pc = "request"
  /\ next_file = cancel_point[1].next_file
  /\ next_file <= Len(selected_paths)
  /\ result # None
  /\ basename(file) \in DOMAIN ledger
  /\ ledger[basename(file)].output_path \in DOMAIN outputs

\* C20: cancellation undoes nothing: when the batch stops on the flag, the
\* output files and ledger entries of the files processed successfully
\* before are all there, whole, and the stop itself changes neither the
\* ledger nor the output tree.
C20_CancelKeepsOutputs ==
  [][worker' = "cancelled" =>
       /\ ledger' = ledger /\ outputs' = outputs
       /\ Cardinality(succeeded') = file_success_count'
       /\ \A f \in succeeded' :
            /\ basename(f) \in DOMAIN ledger'
            /\ ledger'[basename(f)].output_path \in DOMAIN outputs'
            /\ outputs'[ledger'[basename(f)].output_path].complete
    ]_vars

C20_Witness ==
  /\ worker = "cancelled"
  /\ file_success_count = 2
  /\ succeeded = {InputA, InputC}
  /\ Cardinality(DOMAIN ledger) = 2
  /\ Cardinality(DOMAIN outputs) = 2

\* C31: whenever the client is set it was built from the key and URL of the
\* provider held in provider, and no request is sent with the credentials
\* of one provider while another is the selected one
C31_ClientOfSelectedProvider ==
  (client # None /\ provider # None) =>
     /\ client[1].api_key = provider[1].api_key
     /\ client[1].base_url = provider[1].base_url

\* C32: when the provider chosen for a batch is not in the store when the
\* thread selects it, the batch does not go on to its files with a client
\* configured earlier: no file of it is sent to a provider
C32_AbsentProviderStopsBatch ==
  [][(worker = "start" /\ worker' # "start" /\ provider_var \notin DOMAIN api_keys)
       => (worker' = "failed" \/ client' = None)]_vars

\* C33: two inputs with different base filenames never have ledger entries
\* that point to the same output path
C33_OutputPathsDistinct ==
  \A a \in DOMAIN ledger, b \in DOMAIN ledger :
    a # b => ledger[a].output_path # ledger[b].output_path

\* C34: a process_file call changes at most the ledger entry keyed by the
\* base filename of its input; every other entry stays as it was, and no
\* recorded input is lost
C34_OtherEntriesKept ==
  [][(op' \in {"process_file", "ai_call"}) =>
       \A k \in DOMAIN ledger :
          k # basename(file') => (k \in DOMAIN ledger' /\ ledger'[k] = ledger[k])]_vars

C34_Witness ==
  /\ Returned /\ result # None
  /\ file = InputD
  /\ DOMAIN pre.ledger = {basename(InputA), basename(InputC)}
  /\ DOMAIN ledger = DOMAIN pre.ledger \cup {basename(InputD)}
  /\ \A k \in DOMAIN pre.ledger : ledger[k] = pre.ledger[k]

\* C35: every output file is at processed/<channel>/<title>.json, with a
\* directory name and a file stem that are not empty
C35_OutputUnderChannelAndTitle ==
  \A path \in DOMAIN outputs :
    /\ Len(path) >= 5
    /\ path[1] = "processed" /\ path[2] = "/"
    /\ path[Len(path)] = ".json"
    /\ \E i \in 4..(Len(path) - 2) :
         {j \in DOMAIN path : path[j] = "/"} = {2, i}

\* ------------------------------------------------- the window's event loop
\* The three shells from the begin of a run to the return of the window to
\* its idle state: the thread's end (its steps are what BatchSpec follows),
\* the polling of the queue in the tk shells, the delivery of the thread's
\* signals in the Qt shell.
Guis == {"AiTranscriptProcessor.py", "ytt.py", "ytt_qt.py"}
Tk(g) == g # "ytt_qt.py"

\* the place of the first "done" in a queue, 0 when it holds none
FirstDone(q) ==
  IF \E i \in DOMAIN q : q[i] = Done
  THEN CHOOSE i \in DOMAIN q : q[i] = Done /\ \A j \in 1..(i - 1) : q[j] # Done
  ELSE 0

NumDone(q) == Cardinality({i \in DOMAIN q : q[i] = Done})

\* stop_processing: the selection buttons are enabled and the begin button
\* is the begin button again. Its state is set to normal in ytt.py only:
\* AiTranscriptProcessor.py raises TypeError in the unbind call before that
\* line, ytt_qt.py has no such line. ytt_qt.py forgets its thread.
stop_processing ==
  /\ process_btn' = "normal"
  /\ ui' = "ready"
  /\ begin_btn' = IF gui = "ytt.py" THEN "normal" ELSE begin_btn
  /\ processing_thread' = "none"

\* update_progress: the queue is emptied up to its first "done", where
\* stop_processing is called and the polling ends; without a "done" the
\* next call is scheduled
update_progress ==
  /\ Tk(gui)
  /\ polling
  /\ LET n == FirstDone(processing_queue) IN
       IF n = 0
       THEN /\ delivered' = delivered \o processing_queue
            /\ processing_queue' = <<>>
            /\ UNCHANGED <<polling, ui, process_btn, begin_btn, processing_thread>>
       ELSE /\ delivered' = delivered \o SubSeq(processing_queue, 1, n)
            /\ processing_queue' =
                 SubSeq(processing_queue, n + 1, Len(processing_queue))
            /\ polling' = FALSE
            /\ stop_processing
  /\ UNCHANGED <<selected_paths, provider_var, processing_cancelled, worker,
                 next_file, file_count, file_success_count, cancel_point,
                 threads, started, system_prompt, user_prompt>>
  /\ UNCHANGED <<processor, tools, pane, console, gui>>

\* begin_processing of ytt_qt.py, the slot of the one button: a click while
\* the thread of the field runs cancels it and disables the button, any
\* other click starts a thread and start_processing shows the cancel button
begin_processing_qt ==
  /\ gui = "ytt_qt.py"
  /\ begin_btn = "normal"
  /\ IF processing_thread = "running"
     THEN /\ processing_cancelled' = TRUE
          /\ begin_btn' = "disabled"
          /\ ui' = "cancelling"
          /\ UNCHANGED <<processing_thread, threads, started, process_btn, worker>>
     ELSE /\ selected_paths # <<>>
          /\ provider_var # ""
          /\ started < MaxBatches
          /\ processing_thread' = "running"
          /\ processing_cancelled' = FALSE
          /\ threads' = threads + 1
          /\ started' = started + 1
          /\ worker' = "start"
          /\ process_btn' = "disabled"
          /\ ui' = "processing"
          /\ UNCHANGED begin_btn
  /\ UNCHANGED <<selected_paths, provider_var, next_file, file_count,
                 file_success_count, processing_queue, cancel_point,
                 system_prompt, user_prompt>>
  /\ UNCHANGED <<processor, tools, pane, console, gui, polling, delivered>>

\* run of TranscriptProcessingThread comes to its end: its last progress
\* signal, then finished_signal. The thread is the one of the field, or one
\* the field has let go of.
run_ends(current) ==
  /\ gui = "ytt_qt.py"
  /\ threads > 0
  /\ IF current
     THEN /\ processing_thread = "running"
          /\ processing_thread' = "finished"
     ELSE /\ threads > (IF processing_thread = "running" THEN 1 ELSE 0)
          /\ UNCHANGED processing_thread
  /\ threads' = threads - 1
  /\ worker' = IF threads = 1 THEN "finished" ELSE worker
  /\ processing_queue' = processing_queue
       \o <<Put("info", "Processing complete"), Done>>
  /\ UNCHANGED <<selected_paths, provider_var, processing_cancelled, next_file,
                 file_count, file_success_count, ui, cancel_point, started,
                 process_btn, system_prompt, user_prompt, begin_btn>>
  /\ UNCHANGED <<processor, tools, pane, console, gui, polling, delivered>>

\* a progress signal reaches its slot, update_file_status
update_file_status ==
  /\ gui = "ytt_qt.py"
  /\ processing_queue # <<>>
  /\ Head(processing_queue) # Done
  /\ delivered' = Append(delivered, Head(processing_queue))
  /\ processing_queue' = Tail(processing_queue)
  /\ UNCHANGED <<selected_paths, provider_var, processing_cancelled, worker,
                 next_file, file_count, file_success_count, ui, cancel_point,
                 threads, started, process_btn, system_prompt, user_prompt,
                 begin_btn>>
  /\ UNCHANGED <<processor, tools, pane, console, gui, polling, processing_thread>>

\* finished_signal reaches its slot, stop_processing
finished_signal ==
  /\ gui = "ytt_qt.py"
  /\ processing_queue # <<>>
  /\ Head(processing_queue) = Done
  /\ delivered' = Append(delivered, Done)
  /\ processing_queue' = Tail(processing_queue)
  /\ stop_processing
  /\ UNCHANGED <<selected_paths, provider_var, processing_cancelled, worker,
                 next_file, file_count, file_success_count, cancel_point,
                 threads, started, system_prompt, user_prompt>>
  /\ UNCHANGED <<processor, tools, pane, console, gui, polling>>

WindowInit ==
  /\ \E paths \in Batches, chosen \in Choices : ShellInit(paths, chosen)
  /\ ProcessorInit
  /\ ToolsInit
  /\ gui \in Guis
  /\ polling = FALSE
  /\ delivered = <<>>
  /\ processing_thread = "none"
  /\ PaneInit
  /\ ConsoleInit

WindowNext ==
  \/ Tk(gui) /\ begin_processing
  \/ Tk(gui) /\ cancel_processing
  \/ Tk(gui) /\ ThreadEnds
  \/ update_progress
  \/ begin_processing_qt
  \/ \E current \in BOOLEAN : run_ends(current)
  \/ update_file_status
  \/ finished_signal

WindowSpec == WindowInit /\ [][WindowNext]_vars

\* C36: every run that has ended has produced exactly one completion signal,
\* the signal is the last message of the run, once it is taken from the
\* queue the window is idle again (stop_processing has run), and a signal
\* that waits on the queue has something that will take it
C36_OneDoneThenIdle ==
  /\ NumDone(delivered \o processing_queue) = started - threads
  /\ (started > 0 /\ threads = 0) =>
        (delivered \o processing_queue)[Len(delivered \o processing_queue)] = Done
  /\ (started > 0 /\ threads = 0 /\ NumDone(processing_queue) = 0) =>
        (ui = "ready" /\ process_btn = "normal")
  /\ NumDone(processing_queue) > 0 => (gui = "ytt_qt.py" \/ polling)

\* C37: in the Qt shell, once a run has ended and its end has been handled
\* (no thread runs, finished_signal was delivered) the begin button is
\* enabled, whether the run was cancelled or not
C37_BeginEnabledAfterRun ==
  (gui = "ytt_qt.py" /\ started > 0 /\ threads = 0
     /\ NumDone(processing_queue) = 0) => begin_btn = "normal"

\* ------------------------------------------------- the preview of ytt.py
\* The loop of _process_files over the selected files, seen from the
\* preview: what process_file returns is assigned to the variable result,
\* and for a result an update of the preview is scheduled on the main
\* thread, which runs it later.
Returns == {"result", "None"}

\* the content process_file returns for an input
ContentOf(path) == [content_of |-> path]

\* markdown2.markdown(markdown_content), what update_preview inserts
Html(content) == [html_of |-> content]

\* one pass of the loop: result = self.processor.process_file(file), and
\* "if result:" master.after(100, lambda: self.update_preview(result["content"]))
LoopPass(ret) ==
  /\ worker = "loop"
  /\ next_file <= Len(selected_paths)
  /\ ~processing_cancelled
  /\ file_count' = file_count + 1
  /\ next_file' = next_file + 1
  /\ IF ret = "result"
     THEN /\ local_result' = Some([content |-> ContentOf(selected_paths[next_file])])
          /\ file_success_count' = file_success_count + 1
          /\ callbacks' = Append(callbacks, selected_paths[next_file])
     ELSE /\ local_result' = None
          /\ UNCHANGED <<file_success_count, callbacks>>
  /\ UNCHANGED <<selected_paths, provider_var, processing_cancelled, worker,
                 processing_queue, ui, cancel_point, threads, started,
                 process_btn, system_prompt, user_prompt, begin_btn>>
  /\ UNCHANGED <<processor, tools, console, gui, polling, delivered,
                 processing_thread, previewed>>

\* the scheduled lambda runs: it reads the variable result of the loop as
\* it is now (a closure holds the variable, not the value it had), takes
\* its "content" (TypeError on None, outside the try of update_preview)
\* and update_preview shows it
PreviewCallback ==
  /\ callbacks # <<>>
  /\ previewed' = Append(previewed,
       [meant |-> Head(callbacks),
        shown |-> IF local_result = None THEN "TypeError"
                  ELSE Html(local_result[1].content)])
  /\ callbacks' = Tail(callbacks)
  /\ UNCHANGED <<processor, shell, tools, console, gui, polling, delivered,
                 processing_thread, local_result>>

PreviewInit ==
  /\ \E paths \in Batches, chosen \in Choices : ShellInit(paths, chosen)
  /\ ProcessorInit
  /\ ToolsInit
  /\ gui = "ytt.py"
  /\ polling = FALSE
  /\ delivered = <<>>
  /\ processing_thread = "none"
  /\ PaneInit
  /\ ConsoleInit

PreviewNext ==
  \/ begin_processing
  \/ WorkerStart
  \/ \E ret \in Returns : LoopPass(ret)
  \/ PreviewCallback

PreviewSpec == PreviewInit /\ [][PreviewNext]_vars

\* C38: every preview update that ran showed the content of the file it
\* was scheduled for
C38_PreviewShowsItsFile ==
  \A i \in DOMAIN previewed :
    previewed[i].shown = Html(ContentOf(previewed[i].meant))

\* C39: a batch that ended without having been cancelled (and that got as
\* far as its loop) has passed every selected input to process_file: no
\* failure on one input keeps the later ones from being attempted
C39_LaterInputsAttempted ==
  (worker \in {"finished", "failed"} /\ provider_var \in ProviderIds
     /\ ~processing_cancelled)
    => next_file > Len(selected_paths)

\* ------------------------------------------------- the downloader's menu
\* main_menu: the menu is printed, a choice is read and dispatched, until
\* the loop is left. Up to MaxChoices choices are followed.
MaxChoices == 3

\* what the user may type at the menu
MenuChoices == {"0", "1", "2", "3", "4", "5", "6", "7", ""}

\* the menu as it is printed: number -> what it says the number does
Displayed ==
  [c \in {"1", "2", "3", "4", "5", "6"} |->
     CASE c = "1" -> "fetch_single_video"
       [] c = "2" -> "process_file_with_video_urls"
       [] c = "3" -> "fetch_channel_videos"
       [] c = "4" -> "fetch_playlist_videos"
       [] c = "5" -> "find_duplicate_transcripts"
       [] c = "6" -> "quit"]

\* the if / elif chain: what main_menu does for a choice
Dispatch(choice) ==
  CASE choice = "1" -> "fetch_single_video"
    [] choice = "2" -> "process_file_with_video_urls"
    [] choice = "3" -> "fetch_channel_videos"
    [] choice = "4" -> "fetch_playlist_videos"
    [] choice = "5" -> "find_duplicate_transcripts"
    [] choice = "0" -> "quit"
    [] OTHER -> "invalid"

\* one pass of the loop of main_menu
main_menu(choice) ==
  /\ menu = "open"
  /\ Len(entered) < MaxChoices
  /\ entered' = Append(entered, choice)
  /\ called' = Append(called, Dispatch(choice))
  /\ menu' = IF Dispatch(choice) = "quit" THEN "closed" ELSE "open"
  /\ UNCHANGED <<processor, shell, tools, pane, gui, polling, delivered,
                 processing_thread>>

MenuInit ==
  /\ ShellInit(<<>>, "")
  /\ ProcessorInit
  /\ ToolsInit
  /\ FrontInit

MenuNext == \E choice \in MenuChoices : main_menu(choice)

MenuSpec == MenuInit /\ [][MenuNext]_vars

\* C40: a choice that is the number of a displayed option does what the
\* menu displays for that number, and the loop is over exactly after the
\* number displayed for Quit
C40_MenuDoesWhatItDisplays ==
  \A i \in DOMAIN entered :
    entered[i] \in DOMAIN Displayed =>
      /\ called[i] = Displayed[entered[i]]
      /\ (Displayed[entered[i]] = "quit") =>
            (i = Len(entered) /\ menu = "closed")

====
